---- MODULE Spec2Model ----
(***************************************************************************)
(* The schedule command of animesh (src/commands/schedule.rs): timezone    *)
(* and weekday resolution, the query window, the relative-time formatter   *)
(* and the query/render pass of execute().                                 *)
(***************************************************************************)
EXTENDS Integers, Sequences, FiniteSets, TLC

VARIABLES
    clock,        \* Utc::now().timestamp(), seconds since the epoch
    local_offset, \* the system's local offset (local minus UTC, seconds)
    profile,      \* "debug" (overflow checks on) or "release" (wrapping)
    day,          \* self.day: Option<String>
    interval,     \* self.interval: u32
    timezone,     \* self.timezone: Option<String>
    stderr,       \* lines written by eprintln!
    ret,          \* the latest direct call of a method: its inputs and result
    pc,           \* where execute() is
    tz,           \* execute(): let timezone
    range,        \* execute(): let (start, end)
    schedules,    \* the service's airing schedule, a sequence of airingAt
    response,     \* execute(): let schedules (the array of the response)
    relative,     \* execute(): let relative_time of the row being built
    table         \* execute(): the rows added to the table

vars == <<clock, local_offset, profile, day, interval, timezone, stderr, ret,
          pc, tz, range, schedules, response, relative, table>>

---------------------------------------------------------------------------
(* Option<T>: None is the empty set, Some(x) the singleton.                *)
None == {}
Some(x) == {x}
Unwrap(o) == CHOOSE x \in o : TRUE

---------------------------------------------------------------------------
(* i64.  TLC's integers are 32 bits wide, so a 64-bit integer is kept as a *)
(* sign and a magnitude of five base-10^4 limbs, least significant first.  *)
Limbs == 1..5
MagZero == [i \in Limbs |-> 0]

\* the magnitude of a natural number n < 2^31
MagOf(n) ==
    [i \in Limbs |-> CASE i = 1 -> n % 10000
                       [] i = 2 -> (n \div 10000) % 10000
                       [] i = 3 -> n \div 100000000
                       [] OTHER -> 0]

MagLt(a, b) ==
    \E i \in Limbs : a[i] < b[i] /\ \A j \in Limbs : j > i => a[j] = b[j]

MagAdd(a, b) ==
    LET c[i \in 0..5] ==
            IF i = 0 THEN 0 ELSE (a[i] + b[i] + c[i - 1]) \div 10000
    IN  [i \in Limbs |-> (a[i] + b[i] + c[i - 1]) % 10000]

\* a - b for a >= b
MagSub(a, b) ==
    LET c[i \in 0..5] ==
            IF i = 0 THEN 0
            ELSE IF a[i] - b[i] - c[i - 1] < 0 THEN 1 ELSE 0
    IN  [i \in Limbs |-> (a[i] - b[i] - c[i - 1]) % 10000]

\* a * k for 0 <= k <= 86400
MagMul(a, k) ==
    LET c[i \in 0..5] ==
            IF i = 0 THEN 0 ELSE (a[i] * k + c[i - 1]) \div 10000
    IN  [i \in Limbs |-> (a[i] * k + c[i - 1]) % 10000]

I64(n) == [neg |-> n < 0, mag |-> MagOf(IF n < 0 THEN 0 - n ELSE n)]
Norm(neg, mag) == [neg |-> neg /\ mag # MagZero, mag |-> mag]

WNeg(x) == Norm(~x.neg, x.mag)
WAdd(x, y) ==
    IF x.neg = y.neg THEN Norm(x.neg, MagAdd(x.mag, y.mag))
    ELSE IF MagLt(x.mag, y.mag) THEN Norm(y.neg, MagSub(y.mag, x.mag))
    ELSE Norm(x.neg, MagSub(x.mag, y.mag))
WSub(x, y) == WAdd(x, WNeg(y))
WMul(x, k) == Norm(x.neg, MagMul(x.mag, k))
WLt(x, y) ==
    IF x.neg # y.neg THEN x.neg
    ELSE IF x.neg THEN MagLt(y.mag, x.mag) ELSE MagLt(x.mag, y.mag)
WLe(x, y) == ~WLt(y, x)

\* the value as a TLC integer, for |x| < 2^31
ToInt(x) ==
    LET m == x.mag[1] + x.mag[2] * 10000 + x.mag[3] * 100000000
    IN  IF x.neg THEN 0 - m ELSE m
FitsInt(x) == x.mag[5] = 0 /\ x.mag[4] = 0 /\ x.mag[3] <= 20

I64_MAX == [neg |-> FALSE, mag |-> <<5807, 5477, 368, 3372, 922>>]
I64_MIN == [neg |-> TRUE, mag |-> <<5808, 5477, 368, 3372, 922>>]
U32_MAX == [neg |-> FALSE, mag |-> <<7295, 9496, 42, 0, 0>>]
Two64 == [neg |-> FALSE, mag |-> <<1616, 955, 737, 6744, 1844>>]
InI64(x) == WLe(I64_MIN, x) /\ WLe(x, I64_MAX)

\* An arithmetic result that left the i64 range: a panic with overflow
\* checks on, the wrapped value without them.
Checked(r, p) ==
    IF InI64(r) THEN [ok |-> TRUE, val |-> r]
    ELSE IF p = "debug" THEN [ok |-> FALSE, val |-> r]
    ELSE [ok |-> TRUE,
          val |-> IF r.neg THEN WAdd(r, Two64) ELSE WSub(r, Two64)]

---------------------------------------------------------------------------
(* chrono: DateTime<Tz>, weekdays and Duration.                            *)
SecondsPerDay == 86400
SecondsPerHour == 3600
SecondsPerMinute == 60

\* DateTime::with_timezone: the same instant, seen in another offset
with_timezone(now_utc, offset) == [utc |-> now_utc, offset |-> offset]
\* a slip: the timestamp of the local wall-clock reading
timestamp_naive_local(dt) == dt.utc + dt.offset
\* DateTime::timestamp: seconds since the epoch, whatever the offset
timestamp(dt) == dt.utc
\* weekday().num_days_from_monday() of the local date; day 0 was a Thursday
num_days_from_monday(dt) ==
    (((dt.utc + dt.offset) \div SecondsPerDay) + 3) % 7
utc_now(now) == with_timezone(now, 0)

\* Duration::seconds panics outside +-i64::MAX / 1000 seconds
DurationMax == [neg |-> FALSE, mag |-> <<4775, 3685, 3720, 9223, 0>>]
DurationInRange(d) == WLe(WNeg(DurationMax), d) /\ WLe(d, DurationMax)
\* Duration::num_days / num_hours / num_minutes: whole units, towards zero
Quot(secs, unit) ==
    IF secs >= 0 THEN secs \div unit ELSE 0 - ((0 - secs) \div unit)
num_days(secs) == Quot(secs, SecondsPerDay)
num_hours(secs) == Quot(secs, SecondsPerHour)
\* a slip: minutes rounded up
num_minutes_ceil(secs) == Quot(secs + SecondsPerMinute - 1, SecondsPerMinute)
num_minutes(secs) == Quot(secs, SecondsPerMinute)

---------------------------------------------------------------------------
(* crate::utils, as the specification describes it.                        *)
to_uppercase(s) ==
    CASE s = "utc" -> "UTC" [] s = "ist" -> "IST" [] s = "jst" -> "JST"
      [] s = "xyz" -> "XYZ" [] OTHER -> s

\* the table of named offsets, matched without regard to case
match_timezone(token) ==
    LET name == to_uppercase(token)
    IN  CASE name = "UTC" -> Some(0)
          [] name = "IST" -> Some(5 * 3600 + 30 * 60)
          [] name = "JST" -> Some(9 * 3600)
          [] OTHER -> None

\* the offset of the system's local timezone
get_user_timezone == local_offset

\* full or abbreviated English weekday names, Monday = 0
parse_day_of_week(token) ==
    CASE token \in {"monday", "Monday", "mon", "Mon"} -> Some(0)
      [] token \in {"tuesday", "tue", "Tue"} -> Some(1)
      [] token \in {"wednesday", "wed", "Wed"} -> Some(2)
      [] token \in {"thursday", "thu", "Thu"} -> Some(3)
      [] token \in {"friday", "fri", "Fri"} -> Some(4)
      [] token \in {"saturday", "sat", "Sat"} -> Some(5)
      [] token \in {"sunday", "Sunday", "sun", "Sun"} -> Some(6)
      [] OTHER -> None

---------------------------------------------------------------------------
(* impl ScheduleCommand                                                    *)

\* a slip: an unrecognised token silently taken as UTC
get_timezone_or_utc ==
    IF timezone # None
    THEN LET m == match_timezone(Unwrap(timezone))
         IN  [offset |-> IF m # None THEN Unwrap(m) ELSE 0, eprintln |-> <<>>]
    ELSE [offset |-> get_user_timezone, eprintln |-> <<>>]

\* get_timezone: the offset, and what it prints on standard error
get_timezone ==
    IF timezone # None
    THEN LET token == Unwrap(timezone)
             m == match_timezone(token)
         IN  IF m # None
             THEN [offset |-> Unwrap(m), eprintln |-> <<>>]
             ELSE [offset |-> get_user_timezone,
                   eprintln |-> <<"Invalid timezone: " \o token
                                   \o ". Using default timezone.">>]
    ELSE [offset |-> get_user_timezone, eprintln |-> <<>>]

\* a slip: the token ignored
get_target_day_today(now) == num_days_from_monday(utc_now(now))

\* get_target_day, reading the clock at `now`
get_target_day(now) ==
    IF day # None
    THEN LET d == parse_day_of_week(Unwrap(day))
         IN  IF d # None THEN Unwrap(d)
             ELSE num_days_from_monday(utc_now(now))
    ELSE num_days_from_monday(utc_now(now))

\* a slip: the end counted from now instead of from start
get_time_range_end_from_now(now_utc, now_day, p) ==
    LET zone == get_timezone.offset
        now_local == with_timezone(now_utc, zone)
        target_day == get_target_day(now_day)
        current_day == num_days_from_monday(now_local)
        days_diff == IF target_day > current_day
                     THEN target_day - current_day
                     ELSE 0
        shift == Checked(WMul(I64(days_diff), 24 * 3600), p)
        start == Checked(WAdd(I64(timestamp(now_local)), shift.val), p)
        width == Checked(WMul(interval, 24 * 3600), p)
        end == Checked(WAdd(I64(timestamp(now_local)), width.val), p)
    IN  [ok |-> shift.ok /\ start.ok /\ width.ok /\ end.ok,
         start |-> start.val, end |-> end.val]

\* get_time_range: Utc::now() reads now_utc, get_target_day then reads
\* now_day; p is the build profile
get_time_range(now_utc, now_day, p) ==
    LET zone == get_timezone.offset
        now_local == with_timezone(now_utc, zone)
        target_day == get_target_day(now_day)
        current_day == num_days_from_monday(now_local)
        days_diff == IF target_day > current_day
                     THEN target_day - current_day
                     ELSE 0
        shift == Checked(WMul(I64(days_diff), 24 * 3600), p)
        start == Checked(WAdd(I64(timestamp(now_local)), shift.val), p)
        width == Checked(WMul(interval, 24 * 3600), p)
        end == Checked(WAdd(start.val, width.val), p)
    IN  [ok |-> shift.ok /\ start.ok /\ width.ok /\ end.ok,
         start |-> start.val, end |-> end.val]

\* the branches of format_relative_time on diff = airing_at - now
relative_text(diff) ==
    IF diff < 0
    THEN LET abs_duration == 0 - diff
         IN  IF num_hours(abs_duration) > 24
             THEN ToString(num_days(abs_duration)) \o "d ago"
             ELSE IF num_hours(abs_duration) > 0
             THEN ToString(num_hours(abs_duration)) \o "h ago"
             ELSE IF num_minutes(abs_duration) > 0
             THEN ToString(num_minutes(abs_duration)) \o "m ago"
             ELSE "just now"
    ELSE IF num_hours(diff) > 24
         THEN "in " \o ToString(num_days(diff)) \o "d"
         ELSE IF num_hours(diff) > 0
         THEN "in " \o ToString(num_hours(diff)) \o "h"
         ELSE IF num_minutes(diff) > 0
         THEN "in " \o ToString(num_minutes(diff)) \o "m"
         ELSE "now"

\* format_relative_time(airing_at), reading the clock at `now`: the
\* subtraction, Duration::seconds, then the branches
format_relative_time(airing_at, now, p) ==
    LET diff == Checked(WSub(airing_at, I64(now)), p)
    IN  IF ~diff.ok \/ ~DurationInRange(diff.val)
        THEN [panicked |-> TRUE, text |-> ""]
        ELSE [panicked |-> FALSE, text |-> relative_text(ToInt(diff.val))]

---------------------------------------------------------------------------
(* Inputs.                                                                 *)
MaxElapsed == 2       \* seconds the clock may advance in a run
MaxStderr == 2        \* lines kept on standard error by direct calls

Monday == 20759 * SecondsPerDay       \* 2026-11-02 00:00:00 UTC
\* Monday 23:59:59 UTC, Wednesday noon, Sunday 20:00 UTC
ClockStarts ==
    {Monday + SecondsPerDay - 1,
     Monday + 2 * SecondsPerDay + 12 * 3600,
     Monday + 6 * SecondsPerDay + 20 * 3600}
LocalOffsets == {0 - 8 * 3600, 0, 14 * 3600}
TimezoneTokens == {None, Some("UTC"), Some("ist"), Some("JST"), Some("XYZ")}
DayTokens == {None, Some("monday"), Some("Wed"), Some("sunday"),
              Some("someday")}
Intervals == {I64(0), I64(2), I64(7), U32_MAX}
Profiles == {"debug", "release"}

\* distances of an airing time from the first clock value
Deltas ==
    {0, 1, 59, 60, 61, 3599, 3600, 3601, 86399, 86400, 86401, 89999, 90000,
     90001, 172800}
PureStart == Monday + SecondsPerDay - 1
AiringTimes ==
    {I64(PureStart + d) : d \in Deltas} \cup {I64(PureStart - d) : d \in Deltas}
        \cup {I64_MAX, I64_MIN}

NoCall == [fn |-> "none"]

---------------------------------------------------------------------------
(* The clock, and direct calls of the methods (as the unit tests make).    *)

Tick ==
    /\ \E s \in ClockStarts : s <= clock /\ clock < s + MaxElapsed
    /\ clock' = clock + 1
    /\ UNCHANGED <<local_offset, profile, day, interval, timezone, stderr,
                   ret, pc, tz, range, schedules, response, relative, table>>

CallGetTimezone ==
    /\ pc = "unit"
    /\ Len(stderr) < MaxStderr
    /\ ret' = [fn |-> "get_timezone", arg |-> timezone, now |-> clock,
               out |-> get_timezone.offset]
    /\ stderr' = stderr \o get_timezone.eprintln
    /\ UNCHANGED <<clock, local_offset, profile, day, interval, timezone, pc,
                   tz, range, schedules, response, relative, table>>

CallGetTargetDay ==
    /\ pc = "unit"
    /\ ret' = [fn |-> "get_target_day", arg |-> day, now |-> clock,
               out |-> get_target_day(clock)]
    /\ UNCHANGED <<clock, local_offset, profile, day, interval, timezone,
                   stderr, pc, tz, range, schedules, response, relative,
                   table>>

\* the clock may advance between the two reads of get_time_range
CallGetTimeRange ==
    /\ pc = "unit"
    /\ Len(stderr) < MaxStderr
    /\ \E now_day \in {clock, clock + 1} :
        /\ \E s \in ClockStarts : s <= clock /\ now_day <= s + MaxElapsed
        /\ ret' = [fn |-> "get_time_range", arg |-> <<day, interval, timezone>>,
                   now |-> clock, now_day |-> now_day,
                   out |-> get_time_range(clock, now_day, profile)]
        /\ clock' = now_day
    /\ stderr' = stderr \o get_timezone.eprintln
    /\ UNCHANGED <<local_offset, profile, day, interval, timezone, pc, tz,
                   range, schedules, response, relative, table>>

CallFormatRelativeTime ==
    /\ pc = "unit"
    /\ \E airing_at \in AiringTimes :
        ret' = [fn |-> "format_relative_time", arg |-> airing_at,
                now |-> clock,
                out |-> format_relative_time(airing_at, clock, profile)]
    /\ UNCHANGED <<clock, local_offset, profile, day, interval, timezone,
                   stderr, pc, tz, range, schedules, response, relative,
                   table>>

\* execute() has not been called
NotStarted ==
    /\ tz = 0 /\ range = [ok |-> TRUE, start |-> I64(0), end |-> I64(0)]
    /\ response = <<>> /\ table = <<>>
    /\ relative = [panicked |-> FALSE, text |-> ""]

\* the window methods, on every command and system
InitRange ==
    /\ clock \in ClockStarts
    /\ local_offset \in LocalOffsets
    /\ profile \in Profiles
    /\ day \in DayTokens
    /\ interval \in Intervals
    /\ timezone \in TimezoneTokens
    /\ stderr = <<>> /\ ret = NoCall /\ pc = "unit"
    /\ schedules = <<>>
    /\ NotStarted

NextRange ==
    \/ Tick
    \/ CallGetTimezone
    \/ CallGetTargetDay
    \/ CallGetTimeRange

SpecRange == InitRange /\ [][NextRange]_vars

\* every method, on a few commands
InitPure ==
    /\ clock = PureStart
    /\ local_offset = 0 - 8 * 3600
    /\ profile \in Profiles
    /\ day \in {None, Some("monday"), Some("someday")}
    /\ interval \in {I64(2), U32_MAX}
    /\ timezone \in {None, Some("ist"), Some("XYZ")}
    /\ stderr = <<>> /\ ret = NoCall /\ pc = "unit"
    /\ schedules = <<>>
    /\ NotStarted

NextPure ==
    \/ Tick
    \/ CallGetTimezone
    \/ CallGetTargetDay
    \/ CallGetTimeRange
    \/ CallFormatRelativeTime

SpecPure == InitPure /\ [][NextPure]_vars

---------------------------------------------------------------------------
(* execute(): the query and the table.                                     *)
PerPage == 50
MaxBurst == 51        \* episodes airing at the same time

Min(a, b) == IF a <= b THEN a ELSE b

\* a slip: the lower end of the window included
airingSchedules_from(start, end) ==
    LET hits == SelectSeq(schedules,
                          LAMBDA t : WLe(start, I64(t)) /\ WLt(I64(t), end))
    IN  SubSeq(hits, 1, Min(Len(hits), PerPage))

\* Page(perPage: 50) { airingSchedules(airingAt_greater: $start,
\* airingAt_lesser: $end) }: the first page of the matching schedules
airingSchedules(start, end) ==
    LET hits == SelectSeq(schedules,
                          LAMBDA t : WLt(start, I64(t)) /\ WLt(I64(t), end))
    IN  SubSeq(hits, 1, Min(Len(hits), PerPage))

\* lines 110-147: the timezone, the window, and the query sent
ExecuteBegin ==
    /\ pc = "start"
    /\ tz' = get_timezone.offset
    /\ \E now_day \in {clock, clock + 1} :
        /\ \E s \in ClockStarts : s <= clock /\ now_day <= s + MaxElapsed
        /\ range' = get_time_range(clock, now_day, profile)
        /\ clock' = now_day
    /\ stderr' = stderr \o get_timezone.eprintln \o get_timezone.eprintln
    /\ pc' = IF range'.ok THEN "await" ELSE "panicked"
    /\ UNCHANGED <<local_offset, profile, day, interval, timezone, ret,
                   schedules, response, relative, table>>

\* line 147-148: the response arrives
QueryOk ==
    /\ pc = "await"
    /\ response' = airingSchedules(range.start, range.end)
    /\ pc' = "rows"
    /\ UNCHANGED <<clock, local_offset, profile, day, interval, timezone,
                   stderr, ret, tz, range, schedules, relative, table>>

\* line 147: the query fails and `?` returns the error
QueryErr ==
    /\ pc = "await"
    /\ pc' = "failed"
    /\ UNCHANGED <<clock, local_offset, profile, day, interval, timezone,
                   stderr, ret, tz, range, schedules, response, relative,
                   table>>

\* lines 153-164: the next schedule, up to its relative time
FormatRow ==
    /\ pc = "rows" /\ response # <<>>
    /\ relative' = format_relative_time(I64(Head(response)), clock, profile)
    /\ pc' = IF relative'.panicked THEN "panicked" ELSE "cell"
    /\ UNCHANGED <<clock, local_offset, profile, day, interval, timezone,
                   stderr, ret, tz, range, schedules, response, table>>

\* lines 166-171: the row, its status cell red when airing_at < Utc::now()
AddRow ==
    /\ pc = "cell"
    /\ table' = Append(table,
                       [airing_at |-> Head(response),
                        status |-> relative.text,
                        color |-> IF Head(response) < clock
                                  THEN "RED" ELSE "BLUE"])
    /\ response' = Tail(response)
    /\ pc' = "rows"
    /\ UNCHANGED <<clock, local_offset, profile, day, interval, timezone,
                   stderr, ret, tz, range, schedules, relative>>

\* lines 174-175
PrintStd ==
    /\ pc = "rows" /\ response = <<>>
    /\ pc' = "done"
    /\ UNCHANGED <<clock, local_offset, profile, day, interval, timezone,
                   stderr, ret, tz, range, schedules, response, relative,
                   table>>

ExecStart == Monday + SecondsPerDay - 1
\* the service's schedule: episodes around the window's ends, or a burst
Spread ==
    <<ExecStart - 3600, ExecStart, ExecStart + 1, ExecStart + 2,
      ExecStart + 3, ExecStart + 60, ExecStart + 3600,
      ExecStart + SecondsPerDay, ExecStart + SecondsPerDay + 1,
      ExecStart + SecondsPerDay + 2, ExecStart + 2 * SecondsPerDay,
      ExecStart + 2 * SecondsPerDay + 1, ExecStart + 3 * SecondsPerDay>>
Burst ==
    <<ExecStart, ExecStart + 1, ExecStart + 2>>
        \o [i \in 1..MaxBurst |-> ExecStart + 3600]

InitExec ==
    /\ clock = ExecStart
    /\ local_offset \in {0 - 8 * 3600, 14 * 3600}
    /\ profile \in Profiles
    /\ day \in {None, Some("monday"), Some("Wed")}
    /\ interval \in {I64(0), I64(1), I64(2)}
    /\ timezone \in {None, Some("UTC"), Some("XYZ")}
    /\ stderr = <<>> /\ ret = NoCall /\ pc = "start"
    /\ schedules \in {Spread, Burst}
    /\ NotStarted

NextExec ==
    \/ Tick
    \/ ExecuteBegin
    \/ QueryOk
    \/ QueryErr
    \/ FormatRow
    \/ AddRow
    \/ PrintStd

SpecExec == InitExec /\ [][NextExec]_vars

---------------------------------------------------------------------------
(* Properties.                                                             *)

IsRange == ret.fn = "get_time_range"
IsFormat == ret.fn = "format_relative_time"
\* a formatter call on an ordinary timestamp: the airing time, and its
\* distance from the clock value the call read
Ordinary == IsFormat /\ FitsInt(ret.arg) /\ ~ret.out.panicked
AiringAt == ToInt(ret.arg)
Mag == IF AiringAt < ret.now THEN ret.now - AiringAt ELSE AiringAt - ret.now
Unparseable(token) ==
    token = None \/ parse_day_of_week(Unwrap(token)) = None
Unrecognised(token) ==
    token # None /\ match_timezone(Unwrap(token)) = None

\* C1: whatever the timezone token, the day token, the interval (0 and
\* u32::MAX included) and the clock, get_time_range returns (start, end)
\* with end - start = interval * 86400 exactly.
C1_WindowWidth ==
    IsRange =>
        /\ ret.out.ok
        /\ WSub(ret.out.end, ret.out.start) = WMul(interval, 86400)

C1_Witness ==
    /\ IsRange /\ interval = I64(0)
    /\ Unrecognised(timezone) /\ day = Some("sunday")
    /\ ret.out.start # I64(ret.now) /\ ret.out.end = ret.out.start

\* C2: at a distance of at least 86400 seconds the formatter gives the day
\* form with n = floor(mag / 86400): "{n}d ago" in the past, "in {n}d" in
\* the future.
C2_DayForm ==
    (Ordinary /\ Mag >= 86400) =>
        ret.out.text = IF AiringAt < ret.now
                       THEN ToString(Mag \div 86400) \o "d ago"
                       ELSE "in " \o ToString(Mag \div 86400) \o "d"

\* C3: below 86400 seconds the formatter floors: hours from 3600 seconds,
\* minutes from 60, otherwise "just now" (past) or "now" (future, a
\* distance of 0 included).
C3_SubDay ==
    (Ordinary /\ Mag < 86400) =>
        ret.out.text =
            IF Mag >= 3600
            THEN IF AiringAt < ret.now
                 THEN ToString(Mag \div 3600) \o "h ago"
                 ELSE "in " \o ToString(Mag \div 3600) \o "h"
            ELSE IF Mag >= 60
            THEN IF AiringAt < ret.now
                 THEN ToString(Mag \div 60) \o "m ago"
                 ELSE "in " \o ToString(Mag \div 60) \o "m"
            ELSE IF AiringAt < ret.now THEN "just now" ELSE "now"

C3_Witness ==
    Ordinary /\ AiringAt = ret.now - 60 /\ ret.out.text = "1m ago"

C7_Total ==
    /\ IsFormat => ~ret.out.panicked
    /\ IsRange => ret.out.ok

\* C8: start = now + days_diff * 86400, with days_diff = target_day -
\* current_day when the target weekday is later in the local week and 0
\* otherwise; so start = now when it is not later, and now <= start <=
\* now + 6 * 86400.
C8_Start ==
    IsRange =>
        LET offset == IF timezone = None \/ Unrecognised(timezone)
                      THEN local_offset
                      ELSE Unwrap(match_timezone(Unwrap(timezone)))
            current_day == (((ret.now + offset) \div 86400) + 3) % 7
            target_day == get_target_day(ret.now_day)
            days_diff == IF target_day > current_day
                         THEN target_day - current_day ELSE 0
            start == ToInt(ret.out.start)
        IN  /\ FitsInt(ret.out.start)
            /\ start = ret.now + days_diff * 86400
            /\ target_day <= current_day => start = ret.now
            /\ ret.now <= start /\ start <= ret.now + 6 * 86400

C8_Witness ==
    /\ IsRange /\ timezone = Some("JST") /\ day = Some("sunday")
    /\ ToInt(ret.out.start) = ret.now + 4 * 86400

\* C9: with no day token, or an unparseable one, the window starts at the
\* current instant, whatever the offset and the clock (stated here for the
\* calls in which the clock did not advance between the method's reads).
C9_StartsNow ==
    (IsRange /\ Unparseable(day) /\ ret.now_day = ret.now) =>
        ret.out.start = I64(ret.now)

Count(seq, x) == Cardinality({i \in DOMAIN seq : seq[i] = x})
Times(seq) == {seq[i] : i \in DOMAIN seq}
Rows == [i \in DOMAIN table |-> table[i].airing_at]
PastForms ==
    {"just now"}
        \cup {ToString(n) \o unit :
                n \in 1..60, unit \in {"d ago", "h ago", "m ago"}}
FutureForms ==
    {"now"} \cup {"in " \o ToString(n) \o unit :
                    n \in 1..60, unit \in {"d", "h", "m"}}

\* C4 as claimed: the table has one row for every airing event with
\* start <= airing_at < end, and none for any other.
C4_HalfOpen ==
    pc = "done" =>
        \A t \in Times(schedules) :
            Count(Rows, t) =
                IF WLe(range.start, I64(t)) /\ WLt(I64(t), range.end)
                THEN Count(schedules, t) ELSE 0

\* C4 as amended: the rows are the first page (at most 50) of the events
\* with start < airing_at < end: every row lies strictly inside the window,
\* no event has more rows than it occurs, and every event strictly inside
\* has its row when at most 50 are.
C4_OpenFirstPage ==
    pc = "done" =>
        LET inside(t) == WLt(range.start, I64(t)) /\ WLt(I64(t), range.end)
            hits == {i \in DOMAIN schedules : inside(schedules[i])}
        IN  /\ \A i \in DOMAIN table : inside(Rows[i])
            /\ Len(table) = Min(Cardinality(hits), 50)
            /\ \A t \in Times(schedules) :
                /\ Count(Rows, t) <= Count(schedules, t)
                /\ (Cardinality(hits) <= 50 /\ inside(t))
                        => Count(Rows, t) = Count(schedules, t)

C4_Witness ==
    /\ pc = "done" /\ Len(table) = 50
    /\ \E i \in DOMAIN schedules : I64(schedules[i]) = range.start
    /\ Cardinality({i \in DOMAIN schedules :
                      /\ WLt(range.start, I64(schedules[i]))
                      /\ WLt(I64(schedules[i]), range.end)}) > 50

\* C5: an unrecognised timezone token is not an error: get_timezone warns
\* on standard error and returns the local system offset, as it does
\* without a token, and the command does not fail because of it.
C5_UnknownTimezone ==
    (pc # "start" /\ Unrecognised(timezone)) =>
        /\ tz = local_offset
        /\ stderr # <<>>
        /\ \A i \in DOMAIN stderr :
             stderr[i] = "Invalid timezone: " \o Unwrap(timezone)
                            \o ". Using default timezone."
        /\ pc # "panicked"

C5_Witness ==
    /\ pc = "done" /\ timezone = Some("XYZ") /\ table # <<>>
    /\ tz = 14 * 3600

\* C10: in every row the status cell is red exactly when the relative
\* string is a past form and blue exactly when it is a future form.
C10_FlagAgrees ==
    \A i \in DOMAIN table :
        /\ table[i].color = "RED" <=> table[i].status \in PastForms
        /\ table[i].color = "BLUE" <=> table[i].status \in FutureForms

====
